---- MODULE Spec2Model ----
(***************************************************************************)
(* A model of Microsoft::Terminal::Core::Terminal                          *)
(* (src/cascadia/TerminalCore/Terminal.cpp): the live viewport, the user's *)
(* scroll offset, the cursor-driven writer _WriteBuffer, the scroll        *)
(* notification, the selection rectangles and the reader/writer lock.      *)
(*                                                                         *)
(* Coordinates are COORD records [X, Y]; a Viewport is [Top, Width,        *)
(* Height] (its left edge is always 0 in this file).  The text buffer is   *)
(* an external collaborator: the model keeps its size, its cursor and the  *)
(* number of times it has been rotated.                                    *)
(***************************************************************************)
EXTENDS Integers, Sequences, FiniteSets, TLC

VARIABLES
    term,         \* the Terminal instance (its fields, and its TextBuffer)
    skipNewline,  \* `static bool skipNewline` of _WriteBuffer (process wide)
    last,         \* history: the last public call, its inputs and what it did
    env,          \* what callers pass: the arguments each call draws from
    lockReaders,  \* threads holding a shared_lock on _readWriteLock
    lockWriters,  \* threads holding a unique_lock on _readWriteLock
    pc,           \* where each thread is in its current call
    termB,        \* a second Terminal instance of the same process
    alone         \* the first Terminal given the same calls in a process of
                  \* its own: [term, skipNewline]

vars ==
    <<term, skipNewline, last, env, lockReaders, lockWriters, pc, termB, alone>>

----------------------------------------------------------------------------
(* Bounds of the model *)

\* scrollback lines offered to Create: 0..MaxScrollback
MaxScrollback == 1
\* a write is explored only while the cursor column stays <= width + MaxOver
MaxOver == 1
\* a write is explored only while the cursor row stays >= -MaxAbove
MaxAbove == 1
\* targets of UserScrollViewport: -1..MaxTarget
MaxTarget == 2

\* The threads of the application: the one that writes the connection's
\* output, the UI thread (keys, resize, scrolling, selection) and two threads
\* that query the terminal to render it.
OutputThreads == {"output"}

UiThreads == {"ui"}

RenderThreads == {"render1", "render2"}

Threads == OutputThreads \cup UiThreads \cup RenderThreads

----------------------------------------------------------------------------
(* Arithmetic helpers *)

Max(a, b) == IF a >= b THEN a ELSE b

Min(a, b) == IF a <= b THEN a ELSE b

----------------------------------------------------------------------------
(* Viewport (types/Viewport): a rectangle whose left edge is 0 *)

FromDimensions(top, dims) == [Top |-> top, Width |-> dims.X, Height |-> dims.Y]

ViewportEmpty == [Top |-> 0, Width |-> 0, Height |-> 0]

Dimensions(v) == [X |-> v.Width, Y |-> v.Height]

BottomInclusive(v) == v.Top + v.Height - 1

BottomExclusive(v) == v.Top + v.Height

----------------------------------------------------------------------------
(* The text buffer's cell write (TextBuffer::Write, OutputCellIterator) *)

\* Code units: line feed, carriage return, backspace, a narrow character,
\* a wide (two cell) character, the high surrogate of a narrow pair, the high
\* surrogate of a wide pair, a low surrogate.
CodeUnits == {"LF", "CR", "BS", "a", "W", "H1", "H2", "L"}

UNICODE_LINEFEED == "LF"

UNICODE_CARRIAGERETURN == "CR"

UNICODE_BACKSPACE == "BS"

\* wch >= 0xD800 && wch <= 0xDFFF
IsSurrogate(wch) == wch \in {"H1", "H2", "L"}

\* stringView.substr(i, n): at most n units from (1-based) index i
Substr(str, i, n) == SubSeq(str, i, Min(i + n - 1, Len(str)))

\* cells one code unit occupies when it is written on its own; an unpaired
\* surrogate is written as one replacement cell
UnitCells(u) == IF u = "W" THEN 2 ELSE 1

\* end.GetCellDistance(it): the cells the buffer occupied writing `view`
GetCellDistance(view) ==
    IF Len(view) = 2 /\ view[1] \in {"H1", "H2"} /\ view[2] = "L"
    THEN (IF view[1] = "H2" THEN 2 ELSE 1)
    ELSE IF Len(view) = 2 THEN UnitCells(view[1]) + UnitCells(view[2])
    ELSE UnitCells(view[1])

----------------------------------------------------------------------------
(* Terminal: construction *)

Origin == [X |-> 0, Y |-> 0]

NoBuffer == [Width |-> 0, Height |-> 0, cursor |-> Origin]

\* Terminal::Terminal()
Constructed ==
    [ created                  |-> FALSE,
      mutableViewport          |-> ViewportEmpty,
      scrollbackLines          |-> 0,
      scrollOffset             |-> 0,
      snapOnInput              |-> TRUE,
      boxSelection             |-> FALSE,
      renderSelection          |-> FALSE,
      selectionAnchor          |-> Origin,
      endSelectionPosition     |-> Origin,
      pfnScrollPositionChanged |-> FALSE,
      buffer                   |-> NoBuffer ]

\* std::make_unique<TextBuffer>(bufferSize, ...): cursor at the origin
NewTextBuffer(bufferSize) ==
    [Width |-> bufferSize.X, Height |-> bufferSize.Y, cursor |-> Origin]

\* Terminal::Create
CreateTerminal(t, viewportSize, scrollbackLines) ==
    [t EXCEPT !.created = TRUE,
              !.mutableViewport = FromDimensions(0, viewportSize),
              !.scrollbackLines = scrollbackLines,
              !.buffer = NewTextBuffer([X |-> viewportSize.X,
                                        Y |-> viewportSize.Y + scrollbackLines])]

\* Terminal::CreateFromSettings
CreateTerminalFromSettings(t, snap, viewportSize, historySize) ==
    CreateTerminal([t EXCEPT !.snapOnInput = snap], viewportSize, historySize)

----------------------------------------------------------------------------
(* Terminal: queries *)

\* Terminal::GetBufferHeight
GetBufferHeight(t) == BottomExclusive(t.mutableViewport)

\* Terminal::_ViewStartIndex
ViewStartIndex(t) == t.mutableViewport.Top

\* _VisibleStartIndex without the clamp at 0
VisibleStartIndexUnclamped(t) == ViewStartIndex(t) - t.scrollOffset

\* Terminal::_VisibleStartIndex
VisibleStartIndex(t) == Max(0, ViewStartIndex(t) - t.scrollOffset)

\* Terminal::_GetVisibleViewport
GetVisibleViewport(t) ==
    FromDimensions(VisibleStartIndex(t), Dimensions(t.mutableViewport))

\* Terminal::GetScrollOffset
GetScrollOffset(t) == VisibleStartIndex(t)

\* Terminal::_NotifyScrollEvent: the calls made to _pfnScrollPositionChanged
\* (none when no handler is registered).  `at` records the engine state the
\* notification was fired in.
NotifyScrollEvent(t) ==
    IF t.pfnScrollPositionChanged
    THEN << [ top    |-> GetVisibleViewport(t).Top,
              height |-> GetVisibleViewport(t).Height,
              bottom |-> GetBufferHeight(t),
              at     |-> [ Top             |-> t.mutableViewport.Top,
                           Height          |-> t.mutableViewport.Height,
                           scrollOffset    |-> t.scrollOffset,
                           scrollbackLines |-> t.scrollbackLines ] ] >>
    ELSE << >>

----------------------------------------------------------------------------
(* Terminal::_WriteBuffer *)

\* The cursor position one character proposes, before the buffer is cycled
\* (the if / else-if chain on wch), and the cells the cell write reported
\* (0 when wch is a control character).
ProposedCursorPosition(wch, cursorPosBefore, bufferWidth, cells) ==
    IF wch = UNICODE_LINEFEED
    THEN [cursorPosBefore EXCEPT !.Y = @ + 1]
    ELSE IF wch = UNICODE_CARRIAGERETURN
    THEN [cursorPosBefore EXCEPT !.X = 0]
    ELSE IF wch = UNICODE_BACKSPACE
    THEN (IF cursorPosBefore.X = 0
          THEN [X |-> bufferWidth - 1, Y |-> cursorPosBefore.Y - 1]
          ELSE [cursorPosBefore EXCEPT !.X = @ - 1])
    ELSE [cursorPosBefore EXCEPT !.X = @ + cells]

\* The text handed to the cell write for the character at index i
CellWriteView(str, i) ==
    IF IsSurrogate(str[i]) THEN Substr(str, i, 2) ELSE Substr(str, i, 1)

\* How far the loop index moves past i after the character at i was written:
\* `i += cellDistance - 1` in the surrogate branch, then the loop's i++
IndexAdvance(wch, cellDistance) ==
    IF IsSurrogate(wch) THEN (cellDistance - 1) + 1 ELSE 1

\* const auto newRows = proposedCursorPosition.Y - bufferSize.Height() + 1
NewRows(proposedY, bufferHeight) == proposedY - bufferHeight + 1

\* the buffer cycled once however far the cursor went past the bottom
RotationsOnce(proposedY, bufferHeight) ==
    IF NewRows(proposedY, bufferHeight) > 0 THEN 1 ELSE 0

\* the number of IncrementCircularBuffer calls of one step
Rotations(proposedY, bufferHeight) ==
    IF NewRows(proposedY, bufferHeight) > 0
    THEN NewRows(proposedY, bufferHeight) ELSE 0

\* the flag set when the row did not move, instead of when it moved by one
SkipNewlineAfterSameRow(cursorPosBefore, cursorPosAfter) ==
    cursorPosAfter.Y = cursorPosBefore.Y

\* skipNewline = cursorPosAfter.Y == cursorPosBefore.Y+1
SkipNewlineAfter(cursorPosBefore, cursorPosAfter) ==
    cursorPosAfter.Y = cursorPosBefore.Y + 1

\* a viewport that stays where it is whatever the cursor does
ViewportAfterCursorStays(viewport, cursorPosAfter) == viewport

\* Move the viewport down if the cursor moved below the viewport.
ViewportAfterCursor(viewport, cursorPosAfter) ==
    IF cursorPosAfter.Y > BottomInclusive(viewport)
    THEN FromDimensions(Max(0, cursorPosAfter.Y - (viewport.Height - 1)),
                        Dimensions(viewport))
    ELSE viewport

\* a scroll owed by every step that moved the cursor down
ScrollOwedOnAnyAdvance(rotated, viewport, newViewport) ==
    rotated >= 0

\* notifyScroll: the buffer was cycled, or the viewport's top moved
ScrollOwed(rotated, viewport, newViewport) ==
    rotated > 0 \/ newViewport.Top # viewport.Top

\* One iteration of the loop, for the character at (1-based) index i.
\* s = [term, skipNewline, notes, steps, redraws]; the result also carries
\* `next`, the index of the next iteration.
WriteStep(s, str, i) ==
    LET wch == str[i]
        t == s.term
        cursorPosBefore == t.buffer.cursor
    IN  IF wch = UNICODE_LINEFEED /\ s.skipNewline
        THEN [ term |-> t, skipNewline |-> FALSE, notes |-> s.notes,
               redraws |-> s.redraws,
               steps |-> Append(s.steps,
                   [ index |-> i, wch |-> wch, view |-> << >>, skipped |-> TRUE,
                     before |-> cursorPosBefore, proposed |-> cursorPosBefore,
                     rotated |-> 0, after |-> cursorPosBefore,
                     viewBefore |-> t.mutableViewport,
                     viewAfter |-> t.mutableViewport, notified |-> FALSE ]),
               next |-> i + 1 ]
        ELSE
        LET isText == wch \notin {UNICODE_LINEFEED, UNICODE_CARRIAGERETURN,
                                  UNICODE_BACKSPACE}
            view == IF isText THEN CellWriteView(str, i) ELSE << >>
            cellDistance == IF isText THEN GetCellDistance(view) ELSE 0
            proposed == ProposedCursorPosition(wch, cursorPosBefore,
                                               t.buffer.Width, cellDistance)
            rotated == Rotations(proposed.Y, t.buffer.Height)
            cursorPosAfter == [proposed EXCEPT !.Y = @ - rotated]
            newViewport == ViewportAfterCursor(t.mutableViewport, cursorPosAfter)
            notifyScroll == ScrollOwed(rotated, t.mutableViewport, newViewport)
            t2 == [t EXCEPT !.buffer.cursor = cursorPosAfter,
                            !.mutableViewport = newViewport]
        IN  [ term |-> t2,
              skipNewline |-> SkipNewlineAfter(cursorPosBefore, cursorPosAfter),
              notes |-> IF notifyScroll THEN s.notes \o NotifyScrollEvent(t2)
                        ELSE s.notes,
              redraws |-> IF notifyScroll THEN s.redraws + 1 ELSE s.redraws,
              steps |-> Append(s.steps,
                  [ index |-> i, wch |-> wch, view |-> view, skipped |-> FALSE,
                    before |-> cursorPosBefore, proposed |-> proposed,
                    rotated |-> rotated, after |-> cursorPosAfter,
                    viewBefore |-> t.mutableViewport,
                    viewAfter |-> newViewport, notified |-> notifyScroll ]),
              next |-> i + IF isText THEN IndexAdvance(wch, cellDistance) ELSE 1 ]

RECURSIVE WriteLoop(_, _, _)
\* for (size_t i = 0; i < stringView.size(); i++)
WriteLoop(s, str, i) ==
    IF i > Len(str) THEN s
    ELSE LET r == WriteStep(s, str, i) IN WriteLoop(r, str, r.next)

\* Terminal::_WriteBuffer: the terminal, the static flag, the notifications
\* fired and the per-character steps taken
WriteBuffer(t, skip, str) ==
    WriteLoop([term |-> t, skipNewline |-> skip, notes |-> << >>,
               steps |-> << >>, redraws |-> 0, next |-> 1], str, 1)

----------------------------------------------------------------------------
(* Terminal: the other public operations, as functions of the instance *)

\* UserResize without the early return for an unchanged size
UserResizeTerminalAlways(t, viewportSize, reflowed) ==
    LET t1 == [t EXCEPT !.mutableViewport = FromDimensions(0, viewportSize)]
        t2 == [t1 EXCEPT !.buffer.Width = viewportSize.X,
                         !.buffer.Height = viewportSize.Y + t.scrollbackLines]
    IN  IF ~reflowed
        THEN [term |-> t1, result |-> "FAILED", notes |-> << >>]
        ELSE [term |-> t2, result |-> "S_OK", notes |-> NotifyScrollEvent(t2)]

\* Terminal::UserResize.  `reflowed` is whether _buffer->ResizeTraditional
\* succeeds; a failed ResizeTraditional leaves the buffer as it was, a
\* successful one leaves the buffer's cursor where it was.
UserResizeTerminal(t, viewportSize, reflowed) ==
    LET oldDimensions == Dimensions(t.mutableViewport)
        t1 == [t EXCEPT !.mutableViewport = FromDimensions(0, viewportSize)]
        t2 == [t1 EXCEPT !.buffer.Width = viewportSize.X,
                         !.buffer.Height = viewportSize.Y + t.scrollbackLines]
    IN  IF viewportSize = oldDimensions
        THEN [term |-> t, result |-> "S_FALSE", notes |-> << >>]
        ELSE IF ~reflowed
        THEN [term |-> t1, result |-> "FAILED", notes |-> << >>]
        ELSE [term |-> t2, result |-> "S_OK", notes |-> NotifyScrollEvent(t2)]

\* UserScrollViewport that keeps a negative newDelta as the offset
UserScrollViewportTerminalNoFloor(t, viewTop) ==
    [t EXCEPT !.scrollOffset = ViewStartIndex(t) - Max(0, viewTop)]

\* Terminal::UserScrollViewport
UserScrollViewportTerminal(t, viewTop) ==
    LET clampedNewTop == Max(0, viewTop)
        realTop == ViewStartIndex(t)
        newDelta == realTop - clampedNewTop
    IN  [t EXCEPT !.scrollOffset = Max(0, newDelta)]

\* SendKeyEvent that notifies but leaves the scroll offset as it was
SendKeyEventTerminalNoReset(t) ==
    IF t.snapOnInput /\ t.scrollOffset # 0
    THEN [term |-> t, notes |-> NotifyScrollEvent(t)]
    ELSE [term |-> t, notes |-> << >>]

\* Terminal::SendKeyEvent, up to the call of _terminalInput->HandleKey
SendKeyEventTerminal(t) ==
    IF t.snapOnInput /\ t.scrollOffset # 0
    THEN LET t1 == [t EXCEPT !.scrollOffset = 0]
         IN  [term |-> t1, notes |-> NotifyScrollEvent(t1)]
    ELSE [term |-> t, notes |-> << >>]

\* Terminal::SetEndSelectionPosition
SetEndSelectionPositionTerminal(t, position) ==
    [t EXCEPT !.endSelectionPosition =
                  [X |-> position.X, Y |-> position.Y - t.scrollOffset]]

\* Terminal::SetSelectionAnchor
SetSelectionAnchorTerminal(t, position) ==
    SetEndSelectionPositionTerminal(
        [t EXCEPT !.selectionAnchor =
                      [X |-> position.X, Y |-> position.Y - t.scrollOffset],
                  !.renderSelection = TRUE],
        position)

\* Terminal::SetBoxSelection
SetBoxSelectionTerminal(t, isEnabled) == [t EXCEPT !.boxSelection = isEnabled]

\* ClearSelection that resets the coordinates and keeps rendering enabled
ClearSelectionTerminalKeepsRender(t) ==
    [t EXCEPT !.selectionAnchor = Origin,
              !.endSelectionPosition = Origin]

\* Terminal::ClearSelection
ClearSelectionTerminal(t) ==
    [t EXCEPT !.selectionAnchor = Origin,
              !.endSelectionPosition = Origin,
              !.renderSelection = FALSE]

\* _buffer->GetSize().RightInclusive(): the buffer's rightmost column
BufferRightInclusive(b) == b.Width - 1

\* Terminal::_GetSelectionRects: one SMALL_RECT per selected row
GetSelectionRects(t) ==
    IF ~t.renderSelection
    THEN << >>
    ELSE
    LET higherCoord == IF t.selectionAnchor.Y <= t.endSelectionPosition.Y
                       THEN t.selectionAnchor ELSE t.endSelectionPosition
        lowerCoord == IF t.selectionAnchor.Y > t.endSelectionPosition.Y
                      THEN t.selectionAnchor ELSE t.endSelectionPosition
    IN  [ k \in 1..(lowerCoord.Y - higherCoord.Y + 1) |->
            LET row == higherCoord.Y + (k - 1)
            IN  [ Top    |-> row + ViewStartIndex(t),
                  Bottom |-> row + ViewStartIndex(t),
                  Left   |-> IF t.boxSelection
                             THEN Min(higherCoord.X, lowerCoord.X)
                             ELSE IF row = higherCoord.Y
                                  THEN higherCoord.X ELSE 0,
                  Right  |-> IF t.boxSelection
                             THEN Max(higherCoord.X, lowerCoord.X)
                             ELSE IF row = lowerCoord.Y
                                  THEN lowerCoord.X
                                  ELSE BufferRightInclusive(t.buffer) ] ]

----------------------------------------------------------------------------
(* Inputs *)

Size(x, y) == [X |-> x, Y |-> y]

\* viewport sizes of the small model
SmallSizes == {Size(2, 2), Size(3, 3)}

RECURSIVE Lines(_, _)
\* n copies of `line`
Lines(line, n) == IF n = 0 THEN << >> ELSE line \o Lines(line, n - 1)

\* h lines each ending in CR LF, then one more character
LinesThenChar(line, h) == Lines(line \o <<"CR", "LF">>, h) \o <<"a">>

\* every single code unit, CR LF, and a surrogate pair of either width
UnitInputs ==
    {<<u>> : u \in CodeUnits}
    \cup {<<"CR", "LF">>, <<"H1", "L">>, <<"H2", "L">>}

\* the lines that fill a viewport: empty lines for each small size, and
\* one-character lines for the smallest
LineInputs ==
    {LinesThenChar(<< >>, h.Y) : h \in SmallSizes}
    \cup {LinesThenChar(<<"a">>, Size(2, 2).Y)}

\* a write is explored while the cursor it leaves is within these limits
WithinLimits(t) ==
    /\ t.buffer.cursor.X <= t.buffer.Width + MaxOver
    /\ t.buffer.cursor.Y >= 0 - MaxAbove

\* The callers of the general specification: every argument, no call record.
AnyCaller ==
    [ sizes       |-> SmallSizes,
      scrollbacks |-> 0..MaxScrollback,
      inputs      |-> UnitInputs,
      targets     |-> (0 - 1)..MaxTarget,
      snaps       |-> BOOLEAN,
      handlers    |-> BOOLEAN,
      positions   |-> {Origin},
      record      |-> FALSE ]

\* Callers that exercise the writer and record their calls: every string,
\* no scrolling back.
WriterCaller ==
    [ sizes       |-> SmallSizes,
      scrollbacks |-> 0..MaxScrollback,
      inputs      |-> UnitInputs \cup LineInputs,
      targets     |-> {MaxTarget},
      snaps       |-> {TRUE},
      handlers    |-> {TRUE},
      positions   |-> {Origin},
      record      |-> TRUE ]

\* Callers that exercise scrolling and record their calls: line feeds only.
ScrollCaller ==
    [ sizes       |-> SmallSizes,
      scrollbacks |-> 0..MaxScrollback,
      inputs      |-> {<<"LF">>, <<"CR", "LF">>},
      targets     |-> (0 - 1)..MaxTarget,
      snaps       |-> BOOLEAN,
      handlers    |-> BOOLEAN,
      positions   |-> {Origin},
      record      |-> TRUE ]

\* positions on the visible viewport handed to the selection operations
SelectPositions == {[X |-> x, Y |-> y] : x \in 0..1, y \in 0..2}

\* Callers that select text, scroll and resize, and record their calls.
SelectCaller ==
    [ sizes       |-> SmallSizes,
      scrollbacks |-> {0, MaxScrollback},
      inputs      |-> {<<"LF">>},
      targets     |-> {0, MaxTarget},
      snaps       |-> {TRUE},
      handlers    |-> {TRUE},
      positions   |-> SelectPositions,
      record      |-> TRUE ]

\* "Hello\r\n"
Hello == <<"a", "a", "a", "a", "a", "CR", "LF">>

\* Callers of the 80x24 scenario, recording their calls.
HelloCaller ==
    [ sizes       |-> {Size(80, 24)},
      scrollbacks |-> {0},
      inputs      |-> {Hello, <<"LF">>, <<"CR">>},
      targets     |-> {0},
      snaps       |-> {TRUE},
      handlers    |-> {TRUE},
      positions   |-> {Origin},
      record      |-> TRUE ]

----------------------------------------------------------------------------
(* The single-threaded actions: each is one public call *)

NoCall ==
    [op |-> "none", arg |-> << >>, result |-> "", notes |-> << >>,
     steps |-> << >>, redraws |-> 0]

\* the record of a call, kept when the callers record their calls
Called(op, arg, result, notes, steps, redraws) ==
    IF env.record
    THEN [op |-> op, arg |-> arg, result |-> result, notes |-> notes,
          steps |-> steps, redraws |-> redraws]
    ELSE NoCall

LockVars == <<lockReaders, lockWriters, pc>>

\* the variables only the two-instance specification changes
TwoVars == <<termB, alone>>

\* The state after construction, with callers `e`.  skipNewline is a static
\* of the process: false when the process starts, and whatever an earlier
\* Terminal of the same process left in it.
InitWith(e) ==
    /\ term = Constructed
    /\ skipNewline \in BOOLEAN
    /\ last = NoCall
    /\ env = e
    /\ lockReaders = {}
    /\ lockWriters = {}
    /\ pc = [th \in Threads |-> "idle"]
    /\ termB = Constructed
    /\ alone = [term |-> Constructed, skipNewline |-> FALSE]

Init == InitWith(AnyCaller)

Create ==
    /\ ~term.created
    /\ \E viewportSize \in env.sizes, scrollbackLines \in env.scrollbacks :
          /\ term' = CreateTerminal(term, viewportSize, scrollbackLines)
          /\ last' = Called("Create", <<viewportSize, scrollbackLines>>, "",
                            << >>, << >>, 0)
    /\ UNCHANGED <<TwoVars, skipNewline, env, LockVars>>

CreateFromSettings ==
    /\ ~term.created
    /\ \E snap \in env.snaps, viewportSize \in env.sizes,
          historySize \in env.scrollbacks :
          /\ term' = CreateTerminalFromSettings(term, snap, viewportSize,
                                                historySize)
          /\ last' = Called("CreateFromSettings",
                            <<snap, viewportSize, historySize>>, "",
                            << >>, << >>, 0)
    /\ UNCHANGED <<TwoVars, skipNewline, env, LockVars>>

SetScrollPositionChangedCallback ==
    /\ \E pfn \in env.handlers :
          /\ term' = [term EXCEPT !.pfnScrollPositionChanged = pfn]
          /\ last' = Called("SetScrollPositionChangedCallback", pfn, "",
                            << >>, << >>, 0)
    /\ UNCHANGED <<TwoVars, skipNewline, env, LockVars>>

UserResize ==
    /\ term.created
    /\ \E viewportSize \in env.sizes, reflowed \in BOOLEAN :
          LET r == UserResizeTerminal(term, viewportSize, reflowed)
          IN  /\ term' = r.term
              /\ last' = Called("UserResize", viewportSize, r.result,
                                r.notes, << >>, 0)
    /\ UNCHANGED <<TwoVars, skipNewline, env, LockVars>>

Write ==
    /\ term.created
    /\ \E str \in env.inputs :
          LET r == WriteBuffer(term, skipNewline, str)
          IN  /\ WithinLimits(r.term)
              /\ term' = r.term
              /\ skipNewline' = r.skipNewline
              /\ last' = Called("Write", str, "", r.notes, r.steps, r.redraws)
    /\ UNCHANGED <<TwoVars, env, LockVars>>

SendKeyEvent ==
    /\ term.created
    /\ \E handled \in BOOLEAN :
          LET r == SendKeyEventTerminal(term)
          IN  /\ term' = r.term
              /\ last' = Called("SendKeyEvent", << >>, handled, r.notes,
                                << >>, 0)
    /\ UNCHANGED <<TwoVars, skipNewline, env, LockVars>>

UserScrollViewport ==
    /\ term.created
    /\ \E viewTop \in env.targets :
          /\ term' = UserScrollViewportTerminal(term, viewTop)
          /\ last' = Called("UserScrollViewport", viewTop, "", << >>, << >>, 1)
    /\ UNCHANGED <<TwoVars, skipNewline, env, LockVars>>

Next ==
    \/ Create
    \/ CreateFromSettings
    \/ SetScrollPositionChangedCallback
    \/ UserResize
    \/ Write
    \/ SendKeyEvent
    \/ UserScrollViewport

Spec == Init /\ [][Next]_vars

InitWriter == InitWith(WriterCaller)

SpecWriter == InitWriter /\ [][Next]_vars

InitScroll == InitWith(ScrollCaller)

SpecScroll == InitScroll /\ [][Next]_vars

InitHello == InitWith(HelloCaller)

SpecHello == InitHello /\ [][Next]_vars

----------------------------------------------------------------------------
(* Selection: the calls of the UI while text is written, scrolled, resized *)

\* a position on the visible viewport
InViewport(t, position) ==
    /\ position.X < t.mutableViewport.Width
    /\ position.Y < t.mutableViewport.Height

SetSelectionAnchor ==
    /\ term.created
    /\ \E position \in env.positions :
          /\ InViewport(term, position)
          /\ term' = SetSelectionAnchorTerminal(term, position)
          /\ last' = Called("SetSelectionAnchor", position, "", << >>, << >>, 0)
    /\ UNCHANGED <<TwoVars, skipNewline, env, LockVars>>

SetEndSelectionPosition ==
    /\ term.created
    /\ \E position \in env.positions :
          /\ InViewport(term, position)
          /\ term' = SetEndSelectionPositionTerminal(term, position)
          /\ last' = Called("SetEndSelectionPosition", position, "",
                            << >>, << >>, 0)
    /\ UNCHANGED <<TwoVars, skipNewline, env, LockVars>>

SetBoxSelection ==
    /\ term.created
    /\ \E isEnabled \in BOOLEAN :
          /\ term' = SetBoxSelectionTerminal(term, isEnabled)
          /\ last' = Called("SetBoxSelection", isEnabled, "", << >>, << >>, 0)
    /\ UNCHANGED <<TwoVars, skipNewline, env, LockVars>>

ClearSelection ==
    /\ term.created
    /\ term' = ClearSelectionTerminal(term)
    /\ last' = Called("ClearSelection", << >>, "", << >>, << >>, 0)
    /\ UNCHANGED <<TwoVars, skipNewline, env, LockVars>>

NextSelect ==
    \/ Create
    \/ UserResize
    \/ Write
    \/ UserScrollViewport
    \/ SetSelectionAnchor
    \/ SetEndSelectionPosition
    \/ SetBoxSelection
    \/ ClearSelection

InitSelect == InitWith(SelectCaller)

SpecSelect == InitSelect /\ [][NextSelect]_vars

----------------------------------------------------------------------------
(* Two Terminal instances in one process.  `term` and `termB` share the     *)
(* static skipNewline of _WriteBuffer; `alone` is `term` receiving the same *)
(* calls in a process where no other Terminal writes.                       *)

\* Callers of the two-instance specification.
TwoCaller ==
    [ sizes       |-> {Size(2, 2)},
      scrollbacks |-> {MaxScrollback},
      inputs      |-> {<<"LF">>, <<"a">>, <<"CR", "LF">>},
      targets     |-> {0},
      snaps       |-> {TRUE},
      handlers    |-> {TRUE},
      positions   |-> {Origin},
      record      |-> FALSE ]

\* Terminal::Create on the first instance
CreateA ==
    /\ ~term.created
    /\ \E viewportSize \in env.sizes, scrollbackLines \in env.scrollbacks :
          /\ term' = CreateTerminal(term, viewportSize, scrollbackLines)
          /\ alone' = [alone EXCEPT !.term = CreateTerminal(
                           alone.term, viewportSize, scrollbackLines)]
    /\ UNCHANGED <<skipNewline, last, env, LockVars, termB>>

\* Terminal::Create on the second instance
CreateB ==
    /\ ~termB.created
    /\ \E viewportSize \in env.sizes, scrollbackLines \in env.scrollbacks :
          termB' = CreateTerminal(termB, viewportSize, scrollbackLines)
    /\ UNCHANGED <<term, skipNewline, last, env, LockVars, alone>>

\* Terminal::Write on the first instance
WriteA ==
    /\ term.created
    /\ \E str \in env.inputs :
          LET r == WriteBuffer(term, skipNewline, str)
              a == WriteBuffer(alone.term, alone.skipNewline, str)
          IN  /\ WithinLimits(r.term)
              /\ WithinLimits(a.term)
              /\ term' = r.term
              /\ skipNewline' = r.skipNewline
              /\ alone' = [term |-> a.term, skipNewline |-> a.skipNewline]
    /\ UNCHANGED <<last, env, LockVars, termB>>

\* Terminal::Write on the second instance
WriteB ==
    /\ termB.created
    /\ \E str \in env.inputs :
          LET r == WriteBuffer(termB, skipNewline, str)
          IN  /\ WithinLimits(r.term)
              /\ termB' = r.term
              /\ skipNewline' = r.skipNewline
    /\ UNCHANGED <<term, last, env, LockVars, alone>>

NextTwo ==
    \/ CreateA
    \/ CreateB
    \/ WriteA
    \/ WriteB

\* both processes start with the static flag false
InitTwo ==
    /\ InitWith(TwoCaller)
    /\ skipNewline = FALSE

SpecTwo == InitTwo /\ [][NextTwo]_vars

----------------------------------------------------------------------------
(* The lock: std::shared_mutex _readWriteLock, and the threads that call *)

\* a shared_lock is granted while no unique_lock is held
CanLockForReading(readers, writers) == writers = {}

\* a unique_lock granted whatever shared_locks are held
CanLockForWritingAmongReaders(readers, writers) == writers = {}

\* a unique_lock is granted while no lock of either kind is held
CanLockForWriting(readers, writers) == writers = {} /\ readers = {}

\* Callers of the multi-threaded specification.
LockCaller ==
    [ sizes       |-> SmallSizes,
      scrollbacks |-> {MaxScrollback},
      inputs      |-> {<<"LF">>},
      targets     |-> {0},
      snaps       |-> {TRUE},
      handlers    |-> {TRUE},
      positions   |-> {Origin},
      record      |-> FALSE ]

\* the public operations that take no lock themselves
UnlockedOps ==
    {"UserResize", "UserScrollViewport", "SetSelectionAnchor",
     "SetEndSelectionPosition", "SetBoxSelection", "ClearSelection"}

\* where a thread is while an operation reads or writes the engine's state
TouchingState ==
    UnlockedOps \cup {"Write_locked", "SendKeyEvent_check", "SendKeyEvent_locked"}

Goto(th, where) == pc' = [pc EXCEPT ![th] = where]

\* Terminal::LockForReading, by a thread about to query for rendering
LockForReading(th) ==
    /\ term.created
    /\ pc[th] = "idle"
    /\ CanLockForReading(lockReaders, lockWriters)
    /\ lockReaders' = lockReaders \cup {th}
    /\ Goto(th, "Render")
    /\ UNCHANGED <<TwoVars, term, skipNewline, last, env, lockWriters>>

\* the render query is done (_GetSelectionRects, _GetVisibleViewport, ...)
\* and the shared_lock is destroyed
RenderDone(th) ==
    /\ pc[th] = "Render"
    /\ lockReaders' = lockReaders \ {th}
    /\ Goto(th, "idle")
    /\ UNCHANGED <<TwoVars, term, skipNewline, last, env, lockWriters>>

\* Terminal::Write is called: it asks for the write lock
WriteCall(th) ==
    /\ term.created
    /\ pc[th] = "idle"
    /\ Goto(th, "Write_wantLock")
    /\ UNCHANGED <<TwoVars, term, skipNewline, last, env, lockReaders, lockWriters>>

\* auto lock = LockForWriting() in Terminal::Write
WriteLock(th) ==
    /\ pc[th] = "Write_wantLock"
    /\ CanLockForWriting(lockReaders, lockWriters)
    /\ lockWriters' = lockWriters \cup {th}
    /\ Goto(th, "Write_locked")
    /\ UNCHANGED <<TwoVars, term, skipNewline, last, env, lockReaders>>

\* the string is processed and the lock released
WriteReturn(th) ==
    /\ pc[th] = "Write_locked"
    /\ \E str \in env.inputs :
          LET r == WriteBuffer(term, skipNewline, str)
          IN  /\ WithinLimits(r.term)
              /\ term' = r.term
              /\ skipNewline' = r.skipNewline
    /\ lockWriters' = lockWriters \ {th}
    /\ Goto(th, "idle")
    /\ UNCHANGED <<TwoVars, last, env, lockReaders>>

\* one of the operations that take no lock is called
UnlockedCall(th) ==
    /\ term.created
    /\ pc[th] = "idle"
    /\ \E op \in UnlockedOps : Goto(th, op)
    /\ UNCHANGED <<TwoVars, term, skipNewline, last, env, lockReaders, lockWriters>>

UserResizeReturn(th) ==
    /\ pc[th] = "UserResize"
    /\ \E viewportSize \in env.sizes, reflowed \in BOOLEAN :
          term' = UserResizeTerminal(term, viewportSize, reflowed).term
    /\ Goto(th, "idle")
    /\ UNCHANGED <<TwoVars, skipNewline, last, env, lockReaders, lockWriters>>

UserScrollViewportReturn(th) ==
    /\ pc[th] = "UserScrollViewport"
    /\ \E viewTop \in env.targets :
          term' = UserScrollViewportTerminal(term, viewTop)
    /\ Goto(th, "idle")
    /\ UNCHANGED <<TwoVars, skipNewline, last, env, lockReaders, lockWriters>>

SetSelectionAnchorReturn(th) ==
    /\ pc[th] = "SetSelectionAnchor"
    /\ \E position \in env.positions :
          term' = SetSelectionAnchorTerminal(term, position)
    /\ Goto(th, "idle")
    /\ UNCHANGED <<TwoVars, skipNewline, last, env, lockReaders, lockWriters>>

SetEndSelectionPositionReturn(th) ==
    /\ pc[th] = "SetEndSelectionPosition"
    /\ \E position \in env.positions :
          term' = SetEndSelectionPositionTerminal(term, position)
    /\ Goto(th, "idle")
    /\ UNCHANGED <<TwoVars, skipNewline, last, env, lockReaders, lockWriters>>

SetBoxSelectionReturn(th) ==
    /\ pc[th] = "SetBoxSelection"
    /\ \E isEnabled \in BOOLEAN :
          term' = SetBoxSelectionTerminal(term, isEnabled)
    /\ Goto(th, "idle")
    /\ UNCHANGED <<TwoVars, skipNewline, last, env, lockReaders, lockWriters>>

ClearSelectionReturn(th) ==
    /\ pc[th] = "ClearSelection"
    /\ term' = ClearSelectionTerminal(term)
    /\ Goto(th, "idle")
    /\ UNCHANGED <<TwoVars, skipNewline, last, env, lockReaders, lockWriters>>

\* Terminal::SendKeyEvent is called
SendKeyEventCall(th) ==
    /\ term.created
    /\ pc[th] = "idle"
    /\ Goto(th, "SendKeyEvent_check")
    /\ UNCHANGED <<TwoVars, term, skipNewline, last, env, lockReaders, lockWriters>>

\* if (_snapOnInput && _scrollOffset != 0), evaluated with no lock held
SendKeyEventCheck(th) ==
    /\ pc[th] = "SendKeyEvent_check"
    /\ Goto(th, IF term.snapOnInput /\ term.scrollOffset # 0
                THEN "SendKeyEvent_wantLock" ELSE "SendKeyEvent_HandleKey")
    /\ UNCHANGED <<TwoVars, term, skipNewline, last, env, lockReaders, lockWriters>>

\* auto lock = LockForWriting() in Terminal::SendKeyEvent
SendKeyEventLock(th) ==
    /\ pc[th] = "SendKeyEvent_wantLock"
    /\ CanLockForWriting(lockReaders, lockWriters)
    /\ lockWriters' = lockWriters \cup {th}
    /\ Goto(th, "SendKeyEvent_locked")
    /\ UNCHANGED <<TwoVars, term, skipNewline, last, env, lockReaders>>

\* _scrollOffset = 0; _NotifyScrollEvent(); and the lock goes out of scope
SendKeyEventSnap(th) ==
    /\ pc[th] = "SendKeyEvent_locked"
    /\ term' = [term EXCEPT !.scrollOffset = 0]
    /\ lockWriters' = lockWriters \ {th}
    /\ Goto(th, "SendKeyEvent_HandleKey")
    /\ UNCHANGED <<TwoVars, skipNewline, last, env, lockReaders>>

\* _terminalInput->HandleKey(&keyEv) returns
SendKeyEventReturn(th) ==
    /\ pc[th] = "SendKeyEvent_HandleKey"
    /\ Goto(th, "idle")
    /\ UNCHANGED <<TwoVars, term, skipNewline, last, env, lockReaders, lockWriters>>

NextLock ==
    \/ Create
    \/ \E th \in RenderThreads : LockForReading(th)
    \/ \E th \in RenderThreads : RenderDone(th)
    \/ \E th \in OutputThreads : WriteCall(th)
    \/ \E th \in OutputThreads : WriteLock(th)
    \/ \E th \in OutputThreads : WriteReturn(th)
    \/ \E th \in UiThreads : UnlockedCall(th)
    \/ \E th \in UiThreads : UserResizeReturn(th)
    \/ \E th \in UiThreads : UserScrollViewportReturn(th)
    \/ \E th \in UiThreads : SetSelectionAnchorReturn(th)
    \/ \E th \in UiThreads : SetEndSelectionPositionReturn(th)
    \/ \E th \in UiThreads : SetBoxSelectionReturn(th)
    \/ \E th \in UiThreads : ClearSelectionReturn(th)
    \/ \E th \in UiThreads : SendKeyEventCall(th)
    \/ \E th \in UiThreads : SendKeyEventCheck(th)
    \/ \E th \in UiThreads : SendKeyEventLock(th)
    \/ \E th \in UiThreads : SendKeyEventSnap(th)
    \/ \E th \in UiThreads : SendKeyEventReturn(th)

InitLock == InitWith(LockCaller)

SpecLock == InitLock /\ [][NextLock]_vars

----------------------------------------------------------------------------
(* Claims checked under SpecLock *)

\* C4: every public mutating operation (write, userResize,
\* userScrollViewport, the selection setters, clearSelection, sendKeyEvent)
\* holds the write handle while it reads or mutates the engine's state, so no
\* holder of a read handle is inside a query at that time.
C4_MutatorsHoldWriteLock ==
    \A th \in Threads :
        pc[th] \in TouchingState =>
            /\ th \in lockWriters
            /\ lockReaders = {}

\* no write handle together with a read handle or another write handle
Exclusion ==
    /\ Cardinality(lockWriters) <= 1
    /\ lockWriters # {} => lockReaders = {}

\* a thread asking for a read handle gets it whenever no write handle is held,
\* however many read handles are held
ReadersShare ==
    \A th \in RenderThreads :
        (term.created /\ pc[th] = "idle" /\ lockWriters = {})
            => ENABLED LockForReading(th)

\* C5: the guard is a reader/writer exclusion: any number of read handles may
\* be held together, a write handle is never held together with a read handle
\* or another write handle, and a write handle is granted only once every
\* reader has released.
C5_ReaderWriterExclusion ==
    /\ [](Exclusion /\ ReadersShare)
    /\ [][ lockWriters' # lockWriters /\ lockWriters' # {}
           => lockReaders = {} /\ lockWriters = {} ]_vars

\* C5 witness: two readers hold their handles while both writers wait
C5_Witness ==
    /\ lockReaders = RenderThreads
    /\ Cardinality(lockReaders) = 2
    /\ \E th \in OutputThreads : pc[th] = "Write_wantLock"
    /\ \E th \in UiThreads : pc[th] = "SendKeyEvent_wantLock"

----------------------------------------------------------------------------
(* Claims checked under Spec *)

\* C1: in every state reachable by create, write, userScrollViewport,
\* userResize and sendKeyEvent, 0 <= scrollOffset <= scrollbackDepth()
\* (the live viewport's top).
C1_ScrollOffsetWithinScrollback ==
    term.created =>
        /\ 0 <= term.scrollOffset
        /\ term.scrollOffset <= ViewStartIndex(term)

\* C2: in every reachable state 0 <= visibleTop() <= scrollbackDepth().
C2_VisibleTopWithinScrollback ==
    term.created =>
        /\ 0 <= VisibleStartIndex(term)
        /\ VisibleStartIndex(term) <= ViewStartIndex(term)

\* C2 witness: the user has scrolled back into a non-empty scrollback
C2_Witness ==
    /\ term.created
    /\ ViewStartIndex(term) > 0
    /\ term.scrollOffset > 0
    /\ VisibleStartIndex(term) < ViewStartIndex(term)

----------------------------------------------------------------------------
(* Claims checked under SpecWriter *)

CursorInBuffer(t) ==
    /\ 0 <= t.buffer.cursor.Y /\ t.buffer.cursor.Y < t.buffer.Height
    /\ 0 <= t.buffer.cursor.X /\ t.buffer.cursor.X < t.buffer.Width

\* C3: after every write of any run of characters the cursor row is in
\* [0, bufferHeight) and the cursor column is in [0, bufferWidth).
C3_CursorInBufferAfterWrite ==
    last.op = "Write" => CursorInBuffer(term)

\* C6: when the buffer resize fails during userResize the call reports a
\* failure and the live viewport (width, height, top) is what it was before.
C6_FailedResizeKeepsViewport ==
    [][ last'.op = "UserResize" =>
          /\ last'.result = "FAILED" =>
                 term'.mutableViewport = term.mutableViewport
          /\ term'.mutableViewport # term.mutableViewport =>
                 last'.result = "S_OK" ]_vars

\* the steps of the last write at which a CR is immediately followed by a LF
CrLfAt(steps) ==
    { j \in 1..(Len(steps) - 1) :
        /\ steps[j].wch = "CR"
        /\ steps[j + 1].wch = "LF" }

\* C7: from any reachable state, a carriage return immediately followed by a
\* line feed advances the cursor row by exactly 1 and leaves the column at 0,
\* when the cursor is above the last buffer row; within one write and across
\* two writes.
C7_CrLfAdvancesOneRow ==
    [][ /\ last'.op = "Write" =>
            \A j \in CrLfAt(last'.steps) :
                last'.steps[j].before.Y < term'.buffer.Height - 1 =>
                    /\ ~last'.steps[j + 1].skipped
                    /\ last'.steps[j + 1].after =
                         [X |-> 0, Y |-> last'.steps[j].before.Y + 1]
        /\ ( /\ last.op = "Write" /\ last.arg = <<"CR">>
             /\ last'.op = "Write" /\ last'.arg = <<"LF">>
             /\ term.buffer.cursor.Y < term.buffer.Height - 1 )
           => term'.buffer.cursor =
                  [X |-> 0, Y |-> term.buffer.cursor.Y + 1] ]_vars

\* C7 witness: CR LF was written with the flag set by the character before
\* it, and the row advanced by one
C7_Witness ==
    /\ last.op = "Write"
    /\ \E j \in CrLfAt(last.steps) :
          /\ j > 1
          /\ last.steps[j - 1].after.Y = last.steps[j - 1].before.Y + 1
          /\ last.steps[j].before.Y < term.buffer.Height - 1
          /\ last.steps[j + 1].after.Y = last.steps[j].before.Y + 1

RECURSIVE SumRotated(_)
\* the IncrementCircularBuffer calls of a whole write
SumRotated(steps) ==
    IF steps = << >> THEN 0 ELSE Head(steps).rotated + SumRotated(Tail(steps))

\* the last call wrote h lines ending in CR LF and one more character, from
\* the first row of an h-row buffer with no scrollback
FilledViewport ==
    /\ last.op = "Write"
    /\ term.scrollbackLines = 0
    /\ term.buffer.Height = term.mutableViewport.Height
    /\ \E line \in {<< >>, <<"a">>} :
          last.arg = LinesThenChar(line, term.mutableViewport.Height)
    /\ last.steps[1].before.Y = 0

\* C8: a write step whose proposed row exceeds bufferHeight - 1 by k > 0
\* rotates the buffer exactly k times and commits row bufferHeight - 1; and
\* H lines ending in CR LF plus one character, written to an H-row viewport
\* with no scrollback, rotate the buffer once in total and end on row H - 1.
C8_RotatesByOverflow ==
    /\ last.op = "Write" =>
          \A j \in 1..Len(last.steps) :
              LET st == last.steps[j]
                  k == st.proposed.Y - (term.buffer.Height - 1)
              IN  (~st.skipped /\ k > 0) =>
                      /\ st.rotated = k
                      /\ st.after.Y = term.buffer.Height - 1
    /\ FilledViewport =>
          /\ SumRotated(last.steps) = 1
          /\ term.buffer.cursor.Y = term.buffer.Height - 1

\* C8 witness: the viewport was filled and the buffer rotated
C8_Witness == FilledViewport /\ SumRotated(last.steps) = 1

\* the character processed before step j of the write being made: the step
\* before it, or the last step of the write made just before this one
PrecedingStep(j) ==
    IF j > 1 THEN last'.steps[j - 1] ELSE last.steps[Len(last.steps)]

\* a carriage return that itself produced a line advance
CrThatAdvanced(st) ==
    /\ st.wch = "CR"
    /\ ~st.skipped
    /\ st.after.Y = st.before.Y + 1

\* C16: a line feed is suppressed (cursor unchanged) only when the
\* immediately preceding processed character, across write calls, was a
\* carriage return that itself produced a line advance; every other line
\* feed, including one that directly follows another line feed or an
\* ordinary character, advances the proposed cursor row by 1.
C16_LfSuppressedOnlyAfterAdvancingCr ==
    [][ last'.op = "Write" =>
          \A j \in 1..Len(last'.steps) :
              ( /\ last'.steps[j].wch = "LF"
                /\ (j > 1 \/ (last.op = "Write" /\ last.steps # << >>)) )
              => LET st == last'.steps[j]
                 IN  /\ st.skipped => CrThatAdvanced(PrecedingStep(j))
                     /\ ~CrThatAdvanced(PrecedingStep(j)) =>
                            /\ ~st.skipped
                            /\ st.proposed.Y = st.before.Y + 1 ]_vars

\* what the code does: a line feed is suppressed exactly when the step
\* before it moved the cursor down by one row, which only a line feed does
C16_LfSuppressedAfterAdvancingStep ==
    [][ last'.op = "Write" =>
          \A j \in 1..Len(last'.steps) :
              ( /\ last'.steps[j].wch = "LF"
                /\ (j > 1 \/ (last.op = "Write" /\ last.steps # << >>)) )
              => LET st == last'.steps[j]
                     prev == PrecedingStep(j)
                 IN  /\ st.skipped <=>
                            (~prev.skipped /\ prev.after.Y = prev.before.Y + 1)
                     /\ st.skipped => prev.wch = "LF"
                     /\ ~st.skipped => st.proposed.Y = st.before.Y + 1 ]_vars

\* the steps of the last write that were made with the cursor not below the
\* live viewport
StepsFromInsideViewport ==
    { j \in 1..Len(last.steps) :
        last.steps[j].before.Y <= BottomInclusive(last.steps[j].viewBefore) }

\* C18: after every write step, starting from a state where the cursor is
\* not below the live viewport, the committed cursor row is <= the live
\* viewport's bottom-inclusive row; when the cursor had moved below it, the
\* new live viewport top equals max(0, cursorRow - (liveViewportHeight - 1)),
\* the viewport height and width are unchanged, and the live viewport stays
\* inside the buffer (top + height <= bufferHeight).
C18_ViewportFollowsCursor ==
    last.op = "Write" =>
        \A j \in StepsFromInsideViewport :
            LET st == last.steps[j]
            IN  /\ st.after.Y <= BottomInclusive(st.viewAfter)
                /\ Dimensions(st.viewAfter) = Dimensions(st.viewBefore)
                /\ st.after.Y > BottomInclusive(st.viewBefore) =>
                      /\ st.viewAfter.Top =
                            Max(0, st.after.Y - (st.viewBefore.Height - 1))
                      /\ st.viewAfter.Top + st.viewAfter.Height
                            <= term.buffer.Height
                /\ st.after.Y <= BottomInclusive(st.viewBefore) =>
                      st.viewAfter = st.viewBefore
                /\ BottomExclusive(st.viewBefore) <= term.buffer.Height =>
                      BottomExclusive(st.viewAfter) <= term.buffer.Height

\* C18 witness: a step moved the cursor below the live viewport of a buffer
\* with scrollback, and the viewport followed it
C18_Witness ==
    /\ last.op = "Write"
    /\ \E j \in StepsFromInsideViewport :
          /\ last.steps[j].after.Y > BottomInclusive(last.steps[j].viewBefore)
          /\ last.steps[j].viewAfter.Top = last.steps[j].viewBefore.Top + 1
          /\ last.steps[j].rotated = 0

\* the steps of the last write that handed a surrogate pair to the cell write
SurrogatePairSteps ==
    { j \in 1..Len(last.steps) :
        /\ Len(last.steps[j].view) = 2
        /\ last.steps[j].view[1] \in {"H1", "H2"}
        /\ last.steps[j].view[2] = "L" }

\* C19: when an input character begins a surrogate pair, both code units are
\* consumed as one cell-write request and the loop index advances past
\* exactly the one extra consumed code unit, whatever number of cells (1 or
\* 2) the cell-write reports; no code unit of the run is passed to the
\* cell-write twice and none is skipped.
C19_SurrogatePairConsumedOnce ==
    last.op = "Write" =>
        \A j \in SurrogatePairSteps :
            /\ last.steps[j].view =
                  SubSeq(last.arg, last.steps[j].index, last.steps[j].index + 1)
            /\ j < Len(last.steps) =>
                  last.steps[j + 1].index = last.steps[j].index + 2

\* C19 for the pairs that occupy two cells
C19_WidePairConsumedOnce ==
    last.op = "Write" =>
        \A j \in SurrogatePairSteps :
            last.steps[j].view[1] = "H2" =>
                /\ last.steps[j].view =
                      SubSeq(last.arg, last.steps[j].index,
                             last.steps[j].index + 1)
                /\ j < Len(last.steps) =>
                      last.steps[j + 1].index = last.steps[j].index + 2

----------------------------------------------------------------------------
(* Claims checked under SpecHello *)

\* the call before this one created an 80x24 engine with no scrollback, and
\* this one wrote "Hello\r\n" to it
HelloWrittenToFreshEngine ==
    /\ last.op \in {"Create", "CreateFromSettings"}
    /\ Dimensions(term.mutableViewport) = Size(80, 24)
    /\ term.scrollbackLines = 0
    /\ term.pfnScrollPositionChanged
    /\ last'.op = "Write"
    /\ last'.arg = Hello

\* C9 as claimed: on a freshly created 80x24 engine with no scrollback,
\* writing "Hello\r\n" leaves the cursor at row 1, column 0 and fires exactly
\* one scroll-changed notification, with arguments (0, 24, 24).
C9_HelloFiresOneNotification ==
    [][ HelloWrittenToFreshEngine =>
          /\ term'.buffer.cursor = [X |-> 0, Y |-> 1]
          /\ Len(last'.notes) = 1
          /\ last'.notes[1].top = 0
          /\ last'.notes[1].height = 24
          /\ last'.notes[1].bottom = 24 ]_vars

\* C9 as amended: on a freshly created 80x24 engine with no scrollback,
\* writing "Hello\r\n" leaves the cursor at row 1, column 0 and fires no
\* scroll-changed notification.
C9_HelloFiresNoNotification ==
    [][ HelloWrittenToFreshEngine =>
          /\ term'.buffer.cursor = [X |-> 0, Y |-> 1]
          /\ last'.notes = << >>
          /\ last'.redraws = 0 ]_vars

\* C9 witness: "Hello\r\n" was written from the origin of an 80x24 engine
\* that has a scroll-changed handler
C9_Witness ==
    /\ last.op = "Write"
    /\ last.arg = Hello
    /\ last.steps[1].before = Origin
    /\ Dimensions(term.mutableViewport) = Size(80, 24)
    /\ term.pfnScrollPositionChanged
    /\ term.buffer.cursor = [X |-> 0, Y |-> 1]

----------------------------------------------------------------------------
(* Claims checked under SpecScroll *)

\* C10 as claimed: with snap-on-input enabled, every sendKeyEvent leaves
\* scrollOffset = 0 (visibleTop() = scrollbackDepth()) and fires the
\* scroll-changed notification.
C10_KeyAlwaysNotifies ==
    ( /\ last.op = "SendKeyEvent"
      /\ term.snapOnInput
      /\ term.pfnScrollPositionChanged ) =>
        /\ term.scrollOffset = 0
        /\ VisibleStartIndex(term) = ViewStartIndex(term)
        /\ Len(last.notes) = 1

\* C10 as amended: with snap-on-input enabled, every sendKeyEvent leaves
\* scrollOffset = 0 (visibleTop() = scrollbackDepth()); it fires the
\* scroll-changed notification, once, exactly when scrollOffset was not 0
\* before the call and a handler is registered.
C10_KeySnapsAndNotifiesOnChange ==
    [][ (last'.op = "SendKeyEvent" /\ term'.snapOnInput) =>
          /\ term'.scrollOffset = 0
          /\ VisibleStartIndex(term') = ViewStartIndex(term')
          /\ Len(last'.notes) =
                IF term.scrollOffset # 0 /\ term.pfnScrollPositionChanged
                THEN 1 ELSE 0 ]_vars

\* C10 witness: a key event snapped the view back and notified
C10_Witness ==
    /\ last.op = "SendKeyEvent"
    /\ term.snapOnInput
    /\ ViewStartIndex(term) > 0
    /\ Len(last.notes) = 1

\* clamp(x, lo, hi)
Clamp(x, lo, hi) == Max(lo, Min(x, hi))

\* C11: for every target t (negative, within range, or beyond the scrollback
\* depth) and every reachable state, userScrollViewport(t) followed by
\* getScrollOffset() returns clamp(t, 0, scrollbackDepth()).
C11_ScrollRoundTrip ==
    [][ last'.op = "UserScrollViewport" =>
          GetScrollOffset(term') =
              Clamp(last'.arg, 0, ViewStartIndex(term')) ]_vars

\* C11 witness: the user scrolled to a row strictly inside the scrollback
C11_Witness ==
    /\ last.op = "UserScrollViewport"
    /\ 0 < last.arg
    /\ last.arg < ViewStartIndex(term)
    /\ term.scrollOffset > 0
    /\ GetScrollOffset(term) = last.arg

\* the no-op a UserResize step is when the size is not a new one
ResizeUnchanged ==
    /\ last'.result = "S_FALSE"
    /\ term' = term
    /\ last'.notes = << >>

\* C14: calling userResize twice with the same size reports "unchanged" both
\* times and leaves all coordinates (live viewport top, width, height, scroll
\* offset, cursor) unmodified, firing no scroll-changed notification: a call
\* with the current size is a no-op, and so is a call that repeats the size
\* of the userResize call before it.
C14_SameSizeResizeIsNoOp ==
    [][ last'.op = "UserResize" =>
          /\ last'.arg = Dimensions(term.mutableViewport) => ResizeUnchanged
          /\ (last.op = "UserResize" /\ last.arg = last'.arg)
                => ResizeUnchanged ]_vars

\* C14 witness: a resize to the current size was reported unchanged, with a
\* handler registered, the view scrolled back and the cursor off the origin
C14_Witness ==
    /\ last.op = "UserResize"
    /\ last.result = "S_FALSE"
    /\ last.arg = Dimensions(term.mutableViewport)
    /\ term.pfnScrollPositionChanged
    /\ term.scrollOffset > 0
    /\ ViewStartIndex(term) > 0
    /\ term.buffer.cursor.Y > 0

\* C15: every scroll-changed notification fired by the engine (from write,
\* userResize or sendKeyEvent) carries (current visibleTop(), live viewport
\* height, total buffer height), where total buffer height is viewport height
\* + scrollbackCapacity.
C15_NotificationCarriesTotalHeight ==
    \A k \in 1..Len(last.notes) :
        LET n == last.notes[k]
        IN  /\ n.top = Max(0, n.at.Top - n.at.scrollOffset)
            /\ n.height = n.at.Height
            /\ n.bottom = n.at.Height + n.at.scrollbackLines

\* C15 with the third argument the code passes: the live viewport's
\* bottom-exclusive row
C15_NotificationCarriesViewportBottom ==
    \A k \in 1..Len(last.notes) :
        LET n == last.notes[k]
        IN  /\ n.top = Max(0, n.at.Top - n.at.scrollOffset)
            /\ n.height = n.at.Height
            /\ n.bottom = n.at.Top + n.at.Height

----------------------------------------------------------------------------
(* Claims checked under SpecSelect *)

\* |a - b|
Distance(a, b) == IF a >= b THEN a - b ELSE b - a

\* C12: whenever a selection is active (renderSelection true)
\* getSelectionRects() returns exactly |anchorRow - endRow| + 1 rectangles,
\* one per row from the smaller to the larger row in order; after
\* clearSelection() it returns the empty sequence, and it stays empty after a
\* later setEndSelectionPosition until setSelectionAnchor is called.
C12_OneRectPerSelectedRow ==
    /\ [](term.renderSelection =>
            LET rects == GetSelectionRects(term)
                anchorRow == term.selectionAnchor.Y
                endRow == term.endSelectionPosition.Y
            IN  /\ Len(rects) = Distance(anchorRow, endRow) + 1
                /\ \A k \in 1..Len(rects) :
                      /\ rects[k].Top =
                            Min(anchorRow, endRow) + (k - 1) + ViewStartIndex(term)
                      /\ rects[k].Bottom = rects[k].Top)
    /\ [][ /\ last'.op = "ClearSelection" => GetSelectionRects(term') = << >>
           /\ ( /\ GetSelectionRects(term) = << >>
                /\ last'.op # "SetSelectionAnchor" )
              => GetSelectionRects(term') = << >> ]_vars

\* C12 witness: a selection of three rows, dragged upwards, after a selection
\* was cleared
C12_Witness ==
    /\ last.op = "SetEndSelectionPosition"
    /\ term.renderSelection
    /\ term.selectionAnchor.Y = term.endSelectionPosition.Y + 2
    /\ Len(GetSelectionRects(term)) = 3

\* C12 witness of the cleared case: the end was set after clearSelection and
\* nothing is selected
C12_WitnessCleared ==
    /\ last.op = "SetEndSelectionPosition"
    /\ ~term.renderSelection
    /\ term.endSelectionPosition # Origin
    /\ GetSelectionRects(term) = << >>

\* C13: for stream (non-box) selection and every anchor/end pair: the first
\* row's left is hi.col, the last row's right is lo.col, every other edge is
\* 0 (left) or the buffer's rightmost column (right), and a single-row
\* selection has left = min(anchorCol, endCol) and
\* right = max(anchorCol, endCol), so left <= right in every rectangle.
C13_StreamSelectionEdges ==
    (term.created /\ term.renderSelection /\ ~term.boxSelection) =>
        LET anchor == term.selectionAnchor
            end == term.endSelectionPosition
            hi == IF anchor.Y <= end.Y THEN anchor ELSE end
            lo == IF anchor.Y <= end.Y THEN end ELSE anchor
            rects == GetSelectionRects(term)
        IN  \A k \in 1..Len(rects) :
                LET row == hi.Y + (k - 1)
                IN  /\ anchor.Y # end.Y =>
                          /\ rects[k].Left = (IF row = hi.Y THEN hi.X ELSE 0)
                          /\ rects[k].Right =
                                (IF row = lo.Y THEN lo.X
                                 ELSE BufferRightInclusive(term.buffer))
                    /\ anchor.Y = end.Y =>
                          /\ rects[k].Left = Min(anchor.X, end.X)
                          /\ rects[k].Right = Max(anchor.X, end.X)
                    /\ rects[k].Left <= rects[k].Right

\* the stream selection edges of C13 for selections of more than one row
C13_MultiRowEdges ==
    (term.created /\ term.renderSelection /\ ~term.boxSelection
       /\ term.selectionAnchor.Y # term.endSelectionPosition.Y) =>
        C13_StreamSelectionEdges

\* C20: in every reachable state (after any sequence of writes, user scrolls
\* and resizes), immediately after setSelectionAnchor(pos) with pos in
\* visible-viewport coordinates, getSelectionRects() returns exactly one
\* rectangle whose top and bottom equal visibleTop() + pos.row.
C20_AnchorSelectsVisibleRow ==
    last.op = "SetSelectionAnchor" =>
        LET rects == GetSelectionRects(term)
        IN  /\ Len(rects) = 1
            /\ rects[1].Top = VisibleStartIndex(term) + last.arg.Y
            /\ rects[1].Bottom = VisibleStartIndex(term) + last.arg.Y

\* C20 where the scroll offset is within the scrollback (C1 holds)
C20_AnchorSelectsVisibleRowWithinScrollback ==
    (last.op = "SetSelectionAnchor" /\ C1_ScrollOffsetWithinScrollback) =>
        C20_AnchorSelectsVisibleRow

----------------------------------------------------------------------------
(* Claims checked under SpecTwo *)

\* C17: the CR+LF suppression flag is owned by each engine instance: for two
\* engine instances A and B in one process, the cursor positions produced by
\* any sequence of writes to A are the same whatever writes to B are
\* interleaved between them (the same as with no write to B at all).
C17_WritesToBLeaveAAlone ==
    term.buffer.cursor = alone.term.buffer.cursor

====
